---- MODULE Spec2Model ----
(***************************************************************************)
(* gw-redactify: the document viewer (RedactionView), its file-type        *)
(* detection, the document-tree lookup and the App's list loading.         *)
(*                                                                         *)
(* JavaScript strings are TLA+ strings; an optional value (T | undefined)  *)
(* is a tuple: <<>> is undefined, <<v>> is the value v.                    *)
(***************************************************************************)
EXTENDS Integers, Sequences, FiniteSets, TLC

VARIABLES
    \* file-type detection applied to one (MIME, filename) input
    dBlobType,      \* blob.type of the downloaded blob
    dName,          \* the filename detectedExt reads
    dPc,            \* "input" before the render-time detection ran, "done" after
    dOut,           \* what detectedExt returned
    \* findDocument applied to one (documents, id) input
    fDocs,          \* the document tree
    fId,            \* the id looked up
    fPc,            \* "input" before the lookup ran, "done" after
    fOut,           \* what findDocument returned
    \* the page: the App and the RedactionView of its document route
    server,         \* what the REST API holds
    app,            \* the App's useState values
    nav,            \* the router: path is the :id of /document/:id or undefined on /
    listLoads,      \* the loadDatarooms and loadDocuments invocations awaiting
    view,           \* the RedactionView's useState values and loadContent's closure
    contentLoads,   \* the loadContent invocations awaiting
    liveUrls,       \* the object URLs created and not revoked
    nextInv,        \* the number of the next invocation or component instance
    reqLog,         \* how often each running invocation issued each HTTP request
    invoked,        \* how many invocations of each loading function began
    userOps,        \* how many searches, selections and navigations the user made
    returned,       \* what the last fetchDocuments resolved to
    \* the document tree of the sidebar: the DocumentNode instances
    tDocs,          \* the documents the tree renders
    tOpen,          \* isOpen of each mounted DocumentNode, by its position
    tPath,          \* location.pathname
    tLast           \* the last click: where, and isOpen there before it

detectVars == <<dBlobType, dName, dPc, dOut>>

findVars == <<fDocs, fId, fPc, fOut>>

treeVars == <<tDocs, tOpen, tPath, tLast>>

pureVars == <<detectVars, findVars, treeVars>>

pageVars ==
    <<server, app, nav, listLoads, view, contentLoads, liveUrls,
      nextInv, reqLog, invoked, userOps, returned>>

vars == <<detectVars, findVars, treeVars, pageVars>>

-----------------------------------------------------------------------------
(* Optional values *)

None == <<>>

Some(v) == <<v>>

-----------------------------------------------------------------------------
(* String.prototype helpers, computed on the characters of the string *)

UpperChars == "ABCDEFGHIJKLMNOPQRSTUVWXYZ"

LowerChars == "abcdefghijklmnopqrstuvwxyz"

\* one character, lower-cased
LowerChar(c) ==
    IF \E i \in 1..Len(UpperChars) : SubSeq(UpperChars, i, i) = c
    THEN LET i == CHOOSE j \in 1..Len(UpperChars) : SubSeq(UpperChars, j, j) = c
         IN  SubSeq(LowerChars, i, i)
    ELSE c

RECURSIVE toLowerCase(_)
toLowerCase(s) ==
    IF Len(s) = 0 THEN ""
    ELSE LowerChar(SubSeq(s, 1, 1)) \o toLowerCase(SubSeq(s, 2, Len(s)))

\* s.includes(sub)
includes(s, sub) ==
    \E i \in 1..(Len(s) - Len(sub) + 1) : SubSeq(s, i, i + Len(sub) - 1) = sub

\* s.startsWith(sub)
startsWith(s, sub) ==
    /\ Len(sub) <= Len(s)
    /\ SubSeq(s, 1, Len(sub)) = sub

\* the positions of '.' in s
DotPositions(s) == {i \in 1..Len(s) : SubSeq(s, i, i) = "."}

\* s.split('.').length > 1
HasDot(s) == DotPositions(s) # {}

\* s.split('.').pop(): the text after the last '.', the whole string without one
SplitPop(s) ==
    IF HasDot(s)
    THEN LET last == CHOOSE i \in DotPositions(s) : \A j \in DotPositions(s) : j <= i
         IN  SubSeq(s, last + 1, Len(s))
    ELSE s

-----------------------------------------------------------------------------
(* RedactionView: the render-time file-type detection *)

\* the mutant of detectedExt: the filename extension is tried before the MIME rows
detectedExtNameFirst(name, bt) ==
    LET fromName == toLowerCase(SplitPop(name))
        lower == toLowerCase(bt)
    IN  IF fromName # "" THEN Some(fromName)
        ELSE IF includes(lower, "pdf") THEN Some("pdf")
        ELSE IF includes(lower, "spreadsheet") \/ includes(lower, "excel")
                \/ includes(lower, "sheet") \/ includes(lower, "spreadsheetml") THEN Some("xlsx")
        ELSE IF includes(lower, "wordprocessingml") \/ includes(lower, "msword")
                \/ includes(lower, "officedocument.wordprocessingml") THEN Some("docx")
        ELSE IF startsWith(lower, "text/") THEN Some("txt")
        ELSE IF includes(lower, "csv") THEN Some("csv")
        ELSE IF includes(lower, "markdown") THEN Some("md")
        ELSE IF startsWith(lower, "image/") THEN Some("image")
        ELSE None

\* the mutant of detectedExt: the extension taken from the name is not lower-cased
detectedExtNoLower(name, bt) ==
    LET fromName == IF HasDot(name) THEN Some(SplitPop(name)) ELSE None
        lower == toLowerCase(bt)
    IN  IF includes(lower, "pdf") THEN Some("pdf")
        ELSE IF includes(lower, "spreadsheet") \/ includes(lower, "excel")
                \/ includes(lower, "sheet") \/ includes(lower, "spreadsheetml") THEN Some("xlsx")
        ELSE IF includes(lower, "wordprocessingml") \/ includes(lower, "msword")
                \/ includes(lower, "officedocument.wordprocessingml") THEN Some("docx")
        ELSE IF includes(lower, "presentationml") \/ includes(lower, "powerpoint")
                \/ includes(lower, "officedocument.presentationml") THEN Some("pptx")
        ELSE IF startsWith(lower, "text/") THEN Some("txt")
        ELSE IF includes(lower, "csv") THEN Some("csv")
        ELSE IF includes(lower, "markdown") THEN Some("md")
        ELSE IF startsWith(lower, "image/") THEN Some("image")
        ELSE IF fromName # None /\ fromName[1] # "" THEN fromName
        ELSE None

\* detectedExt, as a function of the name (selectedDoc.filename ||
\* documentContent.filename || '') and of documentContent.blobType || ''
detectedExt(name, bt) ==
    LET fromName == IF HasDot(name) THEN Some(toLowerCase(SplitPop(name))) ELSE None
        lower == toLowerCase(bt)
    IN  IF includes(lower, "pdf") THEN Some("pdf")
        ELSE IF includes(lower, "spreadsheet") \/ includes(lower, "excel")
                \/ includes(lower, "sheet") \/ includes(lower, "spreadsheetml") THEN Some("xlsx")
        ELSE IF includes(lower, "wordprocessingml") \/ includes(lower, "msword")
                \/ includes(lower, "officedocument.wordprocessingml") THEN Some("docx")
        ELSE IF includes(lower, "presentationml") \/ includes(lower, "powerpoint")
                \/ includes(lower, "officedocument.presentationml") THEN Some("pptx")
        ELSE IF startsWith(lower, "text/") THEN Some("txt")
        ELSE IF includes(lower, "csv") THEN Some("csv")
        ELSE IF includes(lower, "markdown") THEN Some("md")
        ELSE IF startsWith(lower, "image/") THEN Some("image")
        ELSE IF fromName # None /\ fromName[1] # "" THEN fromName
        ELSE None

-----------------------------------------------------------------------------
(* The inputs of the detection: MIME types and filenames *)

\* how many fragments a generated MIME type is made of
MaxMimeParts == 2

\* fragments the generated MIME types are concatenated from
MimeFrags ==
    {"pdf", "sheet", "msword", "powerpoint", "text/", "csv", "markdown",
     "image/", "TEXT/", "x-"}

\* MIME types servers send for the formats the viewer knows, and unknown ones
RealMimes ==
    {"application/pdf",
     "application/vnd.openxmlformats-officedocument.spreadsheetml.sheet",
     "application/vnd.openxmlformats-officedocument.wordprocessingml.document",
     "application/vnd.openxmlformats-officedocument.presentationml.presentation",
     "application/vnd.ms-excel", "application/vnd.ms-powerpoint", "application/msword",
     "application/octet-stream", "application/zip", "application/json",
     "text/plain", "text/csv", "text/markdown", "text/tab-separated-values",
     "image/png", "image/jpeg", ""}

RECURSIVE FragStrings(_)
FragStrings(n) ==
    IF n = 0 THEN {""}
    ELSE LET shorter == FragStrings(n - 1)
         IN  shorter \cup {s \o f : s \in shorter, f \in MimeFrags}

MimeTypes == RealMimes \cup FragStrings(MaxMimeParts)

FileNames ==
    {"", "report", "report.pdf", "DATA.CSV", "notes.md", "archive.zip",
     "draft.", "a.b.txt"}

-----------------------------------------------------------------------------
(* The detection alone *)

DetectInit ==
    /\ dBlobType \in MimeTypes
    /\ dName \in FileNames
    /\ dPc = "input"
    /\ dOut = None

\* the same, on the MIME types servers send only
DetectRealInit ==
    /\ dBlobType \in RealMimes
    /\ dName \in FileNames
    /\ dPc = "input"
    /\ dOut = None

\* the detection is not part of the run
DetectIdle ==
    /\ dBlobType = ""
    /\ dName = ""
    /\ dPc = "idle"
    /\ dOut = None

\* the render evaluates detectedExt
Detect ==
    /\ dPc = "input"
    /\ dOut' = detectedExt(dName, dBlobType)
    /\ dPc' = "done"
    /\ UNCHANGED <<dBlobType, dName>>

-----------------------------------------------------------------------------
(* The document tree and findDocument *)

\* the mutant of findDocument: only the top level of the tree is searched
findDocumentTopLevel(docs, id) ==
    IF \E i \in 1..Len(docs) : docs[i].id = id
    THEN Some(docs[CHOOSE i \in 1..Len(docs) :
                     docs[i].id = id /\ \A j \in 1..(i - 1) : docs[j].id # id])
    ELSE None

\* findDocument(docs, id): a document's children are <<>> when the field is
\* absent and <<list>> when it is present
RECURSIVE findDocument(_, _)
findDocument(docs, id) ==
    IF docs = <<>> THEN None
    ELSE LET doc == Head(docs)
         IN  IF doc.id = id THEN Some(doc)
             ELSE LET found == IF doc.children # None
                               THEN findDocument(doc.children[1], id)
                               ELSE None
                  IN  IF found # None THEN found
                      ELSE findDocument(Tail(docs), id)

\* how many nodes a generated document tree has at most
MaxNodes == 4

FindIds == {"a", "b"}

\* the ordered forests of exactly n nodes with ids in FindIds; a node without
\* children has the field absent or an empty list
RECURSIVE Forests(_)
Forests(n) ==
    IF n = 0 THEN {<<>>}
    ELSE UNION {
           LET kids == Forests(k)
               rest == Forests(n - 1 - k)
           IN  {<<[id |-> i, children |-> c]>> \o r :
                    i \in FindIds,
                    c \in {Some(f) : f \in kids} \cup (IF k = 0 THEN {None} ELSE {}),
                    r \in rest}
           : k \in 0..(n - 1)}

FindInit ==
    /\ fDocs \in UNION {Forests(n) : n \in 0..MaxNodes}
    /\ fId \in FindIds \cup {"zz"}
    /\ fPc = "input"
    /\ fOut = None

FindIdle ==
    /\ fDocs = <<>>
    /\ fId = ""
    /\ fPc = "idle"
    /\ fOut = None

\* selectedDoc = findDocument(documents, id)
Find ==
    /\ fPc = "input"
    /\ fOut' = findDocument(fDocs, fId)
    /\ fPc' = "done"
    /\ UNCHANGED <<fDocs, fId>>

-----------------------------------------------------------------------------
(* The backend: what the REST API holds.  It does not change during a run. *)

ServerDatarooms(r) ==
    IF r \in DOMAIN server.datarooms THEN server.datarooms[r] ELSE <<>>

ServerDocuments(r, d) ==
    IF <<r, d>> \in DOMAIN server.documents THEN server.documents[<<r, d>>] ELSE <<>>

-----------------------------------------------------------------------------
(* Promises: what an awaited call settles to *)

Fulfilled(v) == [status |-> "fulfilled", value |-> v]

Rejected == [status |-> "rejected"]

\* axios.get: fulfilled with response.data, or rejected when the request fails
axiosGet(ok, data) == IF ok THEN Fulfilled(data) ELSE Rejected

\* the mutant of OrCatch: the function has no catch block
OrCatchNothing(p, fallback) == p

\* try { return <p> } catch (error) { return fallback } of an async function
OrCatch(p, fallback) == IF p.status = "rejected" THEN Fulfilled(fallback) ELSE p

-----------------------------------------------------------------------------
(* documentService: each function catches the failure of its request *)

\* fetchDatarooms(realmId), given whether its request succeeded
fetchDatarooms(r, ok) == OrCatch(axiosGet(ok, ServerDatarooms(r)), <<>>)

\* fetchDocuments(realmId, dataroomId), given whether its request succeeded
fetchDocuments(r, d, ok) == OrCatch(axiosGet(ok, ServerDocuments(r, d)), <<>>)

-----------------------------------------------------------------------------
(* The components' state as one value, so that a handler and the effects   *)
(* that follow its commit compose.                                         *)

World ==
    [app |-> app, nav |-> nav, listLoads |-> listLoads, view |-> view,
     contentLoads |-> contentLoads, liveUrls |-> liveUrls,
     nextInv |-> nextInv, reqLog |-> reqLog, invoked |-> invoked]

Becomes(w) ==
    /\ app' = w.app
    /\ nav' = w.nav
    /\ listLoads' = w.listLoads
    /\ view' = w.view
    /\ contentLoads' = w.contentLoads
    /\ liveUrls' = w.liveUrls
    /\ nextInv' = w.nextInv
    /\ reqLog' = w.reqLog
    /\ invoked' = w.invoked

\* axios.get: invocation n of function fn issues its request of this kind
Issue(w, n, fn, kind) ==
    LET k == <<n, fn, kind>>
    IN  [w EXCEPT !.reqLog = IF k \in DOMAIN @ THEN [@ EXCEPT ![k] = @ + 1]
                             ELSE @ @@ (k :> 1)]

\* invocation n of function fn begins
Begin(w, n, fn) == [w EXCEPT !.nextInv = n + 1, !.invoked[fn] = @ + 1]

\* invocation n ended: it issues nothing any more
End(w, n) == [w EXCEPT !.reqLog = [k \in {j \in DOMAIN @ : j[1] # n} |-> @[k]]]

\* String.prototype.trim, on blanks
RECURSIVE trimStart(_)
trimStart(s) ==
    IF Len(s) > 0 /\ SubSeq(s, 1, 1) = " " THEN trimStart(SubSeq(s, 2, Len(s))) ELSE s

RECURSIVE trimEnd(_)
trimEnd(s) ==
    IF Len(s) > 0 /\ SubSeq(s, Len(s), Len(s)) = " "
    THEN trimEnd(SubSeq(s, 1, Len(s) - 1))
    ELSE s

trim(s) == trimEnd(trimStart(s))

-----------------------------------------------------------------------------
(* App *)

\* the App's useState initial values
AppInitial ==
    [realmId |-> "", datarooms |-> <<>>, selectedDataroomId |-> "",
     documents |-> <<>>, isDevMode |-> TRUE, isFetching |-> FALSE, error |-> None]

\* navigate(to): a new history entry
navigate(w, to) ==
    [w EXCEPT !.nav = [path |-> to, history |-> Append(@.history, to)]]

\* the mutant of loadDatarooms: the selected dataroom is not cleared
loadDataroomsKeepsSelection(w, id) ==
    LET normalized == trim(id)
        cleared == [w EXCEPT !.app.error = None, !.app.datarooms = <<>>,
                             !.app.documents = <<>>]
        n == w.nextInv
    IN  IF normalized = ""
        THEN [cleared EXCEPT !.app.realmId = "", !.app.isFetching = FALSE]
        ELSE Issue([Begin(cleared, n, "loadDatarooms") EXCEPT
                      !.app.isFetching = TRUE,
                      !.listLoads = @ @@ (n :> [fn |-> "loadDatarooms",
                                                realm |-> normalized, dataroom |-> ""])],
                   n, "loadDatarooms", "datarooms")

\* the mutant of loadDatarooms: no early return on an empty id
loadDataroomsUnguarded(w, id) ==
    LET normalized == trim(id)
        cleared == [w EXCEPT !.app.error = None, !.app.datarooms = <<>>,
                             !.app.documents = <<>>, !.app.selectedDataroomId = ""]
        n == w.nextInv
    IN  Issue([Begin(cleared, n, "loadDatarooms") EXCEPT
                 !.app.isFetching = TRUE,
                 !.listLoads = @ @@ (n :> [fn |-> "loadDatarooms",
                                           realm |-> normalized, dataroom |-> ""])],
              n, "loadDatarooms", "datarooms")

\* loadDatarooms(id) up to its await
loadDatarooms(w, id) ==
    LET normalized == trim(id)
        cleared == [w EXCEPT !.app.error = None, !.app.datarooms = <<>>,
                             !.app.documents = <<>>, !.app.selectedDataroomId = ""]
        n == w.nextInv
    IN  IF normalized = ""
        THEN [cleared EXCEPT !.app.realmId = "", !.app.isFetching = FALSE]
        ELSE Issue([Begin(cleared, n, "loadDatarooms") EXCEPT
                      !.app.isFetching = TRUE,
                      !.listLoads = @ @@ (n :> [fn |-> "loadDatarooms",
                                                realm |-> normalized, dataroom |-> ""])],
                   n, "loadDatarooms", "datarooms")

\* the mutant of loadDataroomsResumes: the last dataroom is selected
loadDataroomsResumesLast(w, n, data) ==
    [End(w, n) EXCEPT !.app.datarooms = data,
                      !.app.realmId = w.listLoads[n].realm,
                      !.app.selectedDataroomId = IF Len(data) > 0 THEN data[Len(data)].id ELSE @,
                      !.app.isFetching = FALSE,
                      !.listLoads = [m \in DOMAIN @ \ {n} |-> @[m]]]

\* loadDatarooms after its await: fetchDatarooms resolved to data
loadDataroomsResumes(w, n, data) ==
    [End(w, n) EXCEPT !.app.datarooms = data,
              !.app.realmId = w.listLoads[n].realm,
              !.app.selectedDataroomId = IF Len(data) > 0 THEN data[1].id ELSE @,
              !.app.isFetching = FALSE,
              !.listLoads = [m \in DOMAIN @ \ {n} |-> @[m]]]

\* loadDatarooms from its catch block on
loadDataroomsCatches(w, n) ==
    [End(w, n) EXCEPT
              !.app.error = Some("Failed to fetch datarooms. Check console for details."),
              !.app.isFetching = FALSE,
              !.listLoads = [m \in DOMAIN @ \ {n} |-> @[m]]]

\* loadDatarooms once the promise p of fetchDatarooms settled: the rest of the
\* try block, or the catch block; finally runs in both
loadDataroomsSettles(w, n, p) ==
    IF p.status = "fulfilled" THEN loadDataroomsResumes(w, n, p.value)
    ELSE loadDataroomsCatches(w, n)

\* loadDocuments(rId, dId) up to its await
loadDocuments(w, rId, dId) ==
    LET n == w.nextInv
    IN  IF rId = "" \/ dId = "" THEN w
        ELSE Issue([Begin(w, n, "loadDocuments") EXCEPT
                      !.app.isFetching = TRUE,
                      !.app.error = None,
                      !.listLoads = @ @@ (n :> [fn |-> "loadDocuments",
                                                realm |-> rId, dataroom |-> dId])],
                   n, "loadDocuments", "documents")

\* loadDocuments after its await: fetchDocuments resolved to data
loadDocumentsResumes(w, n, data) ==
    [End(w, n) EXCEPT !.app.documents = data,
              !.app.isFetching = FALSE,
              !.listLoads = [m \in DOMAIN @ \ {n} |-> @[m]]]

\* loadDocuments from its catch block on
loadDocumentsCatches(w, n) ==
    [End(w, n) EXCEPT
              !.app.error = Some("Failed to fetch documents. Check console for details."),
              !.app.isFetching = FALSE,
              !.listLoads = [m \in DOMAIN @ \ {n} |-> @[m]]]

\* loadDocuments once the promise p of fetchDocuments settled
loadDocumentsSettles(w, n, p) ==
    IF p.status = "fulfilled" THEN loadDocumentsResumes(w, n, p.value)
    ELSE loadDocumentsCatches(w, n)

\* useEffect(() => { if (selectedDataroomId) loadDocuments(realmId,
\* selectedDataroomId) }, [loadDocuments, realmId, selectedDataroomId]) after
\* the commit that took the App from old to w
documentsEffect(old, w) ==
    IF /\ <<old.app.realmId, old.app.selectedDataroomId>>
            # <<w.app.realmId, w.app.selectedDataroomId>>
       /\ w.app.selectedDataroomId # ""
    THEN loadDocuments(w, w.app.realmId, w.app.selectedDataroomId)
    ELSE w

-----------------------------------------------------------------------------
(* documentService: the file and markdown requests of one document *)

\* the Blob a download of the document's file resolves to
ServerBlob(docId, original) ==
    LET f == server.files[docId]
    IN  [doc |-> docId, original |-> original, type |-> f.type,
         text |-> IF original THEN f.originalText ELSE f.text]

\* fetchFileUrl(realmId, dataroomId, documentId, original): the request fails
\* (outcome "error"), or answers with a file_url or with none ("empty")
fetchFileUrl(docId, original, outcome) ==
    OrCatch(axiosGet(outcome # "error",
                     IF outcome = "url"
                     THEN Some([doc |-> docId, original |-> original]) ELSE None),
            None)

\* fetchFileBlob when it does not go on to the download: fetchFileUrl threw
\* (the catch block), or `if (!fileUrl) return null`
fetchFileBlobWithoutUrl(fileUrl) ==
    OrCatch(IF fileUrl.status = "rejected" THEN Rejected ELSE Fulfilled(None), None)

\* fetchFileBlob from its download on, given whether the download succeeded
fetchFileBlobDownloads(docId, original, ok) ==
    OrCatch(axiosGet(ok, Some(ServerBlob(docId, original))), None)

\* fetchFileBlob as a whole
fetchFileBlob(docId, original, outcome, ok) ==
    LET fileUrl == fetchFileUrl(docId, original, outcome)
    IN  IF fileUrl.status = "fulfilled" /\ fileUrl.value # None
        THEN fetchFileBlobDownloads(docId, original, ok)
        ELSE fetchFileBlobWithoutUrl(fileUrl)

\* fetchDocumentMarkdown, given whether its request succeeded
fetchDocumentMarkdown(docId, ok) ==
    OrCatch(axiosGet(ok /\ docId \in DOMAIN server.files,
                     IF docId \in DOMAIN server.files
                     THEN server.files[docId].markdown ELSE ""),
            "Loading the markdown content")

-----------------------------------------------------------------------------
(* RedactionView *)

FileView == "FileView"

OriginalFileView == "OriginalFileView"

\* the component is not mounted: the route is not /document/:id
Unmounted ==
    [instance |-> 0, documentContent |-> None, loading |-> TRUE,
     downloadProgress |-> 0, currentPdfView |-> FileView,
     showRedactedSection |-> FALSE,
     closure |-> [realmId |-> "", dataroomId |-> "", isDevMode |-> FALSE,
                  documents |-> <<>>]]

\* the props the App passes at a render, as loadContent's closure captures them
Props(a) ==
    [realmId |-> a.realmId, dataroomId |-> a.selectedDataroomId,
     isDevMode |-> a.isDevMode, documents |-> a.documents]

\* URL.createObjectURL(blob) in invocation n
ObjectUrl(n, blob) == [inv |-> n, original |-> blob.original]

\* the object URLs a documentContent holds
ContentUrls(dc) ==
    IF dc = None THEN {}
    ELSE {dc[1].blobUrl} \cup (IF dc[1].originalBlobUrl # None
                               THEN {dc[1].originalBlobUrl[1]} ELSE {})

\* a || b on optional strings: the first when it is defined and not empty
OrElse(a, b) == IF a # None /\ a[1] # "" THEN a ELSE b

\* inferExtFromType(t, filename) of loadContent
inferExtFromType(t, filename) ==
    LET lower == toLowerCase(t)
        ext == toLowerCase(SplitPop(filename))
    IN  IF t = "" THEN None
        ELSE IF includes(lower, "pdf") THEN Some("pdf")
        ELSE IF includes(lower, "spreadsheet") \/ includes(lower, "excel")
                \/ includes(lower, "sheet") \/ includes(lower, "spreadsheetml") THEN Some("xlsx")
        ELSE IF includes(lower, "wordprocessingml") \/ includes(lower, "msword")
                \/ includes(lower, "officedocument.wordprocessingml") THEN Some("docx")
        ELSE IF includes(lower, "presentationml") \/ includes(lower, "powerpoint")
                \/ includes(lower, "officedocument.presentationml") THEN Some("pptx")
        ELSE IF startsWith(lower, "text/") THEN Some("txt")
        ELSE IF includes(lower, "csv") THEN Some("csv")
        ELSE IF includes(lower, "markdown") THEN Some("md")
        ELSE IF startsWith(lower, "image/") THEN Some("image")
        ELSE IF ext = "md" \/ ext = "markdown" THEN Some("md")
        ELSE IF ext = "txt" THEN Some("txt")
        ELSE IF ext = "csv" THEN Some("csv")
        ELSE None

\* ext === 'md' || ext === 'markdown' || ext === 'txt' || ext === 'csv' || ext === 'tsv'
TextLike(ext) == ext \in {Some("md"), Some("markdown"), Some("txt"), Some("csv"), Some("tsv")}

\* the value loadContent passes to setDocumentContent once Promise.all
\* resolved to a non-null blob in invocation ld (number n); readOk tells whether
\* every blob.text() it awaits resolves
LoadedContent(n, ld, readOk) ==
    LET blob == ld.curBlob[1]
        fileDoc == findDocument(ld.closure.documents, ld.docId)
        filename == IF fileDoc # None /\ fileDoc[1].original_name # None
                    THEN fileDoc[1].original_name[1] ELSE ""
        blobType == blob.type
        extFromName == Some(toLowerCase(SplitPop(filename)))
        ext == OrElse(inferExtFromType(blobType, filename), extFromName)
        base == [blobUrl |-> ObjectUrl(n, blob),
                 originalBlobUrl |-> IF ld.origBlob # None
                                     THEN Some(ObjectUrl(n, ld.origBlob[1])) ELSE None,
                 redactedContent |-> ld.redacted,
                 originalText |-> None,
                 originalDocText |-> None,
                 filename |-> filename,
                 blobType |-> blobType,
                 blob |-> blob,
                 originalBlob |-> ld.origBlob]
        originalText == Some(blob.text)
        originalDocText == IF ld.origBlob # None THEN Some(ld.origBlob[1].text) ELSE Some("")
    IN  IF TextLike(ext) /\ readOk
        THEN [base EXCEPT !.originalText = originalText,
                          !.originalDocText = OrElse(originalDocText, originalText)]
        ELSE base

\* whether loadContent awaits blob.text() in invocation ld
ReadsText(ld) ==
    /\ ld.curBlob # None
    /\ LET fileDoc == findDocument(ld.closure.documents, ld.docId)
           filename == IF fileDoc # None /\ fileDoc[1].original_name # None
                       THEN fileDoc[1].original_name[1] ELSE ""
       IN  TextLike(OrElse(inferExtFromType(ld.curBlob[1].type, filename),
                           Some(toLowerCase(SplitPop(filename)))))

\* loadContent(docId) up to its await: the three fetches are started
loadContent(w, docId) ==
    LET n == w.nextInv
        c == w.view.closure
        ld == [instance |-> w.view.instance, docId |-> docId, closure |-> c,
               cur |-> "url", curBlob |-> None,
               orig |-> IF c.isDevMode THEN "url" ELSE "skip", origBlob |-> None,
               md |-> "pending", redacted |-> ""]
        w1 == [Begin(w, n, "loadContent") EXCEPT
                  !.view.loading = TRUE,
                  !.view.downloadProgress = 0,
                  !.view.documentContent = None,
                  !.contentLoads = @ @@ (n :> ld)]
        w2 == Issue(Issue(w1, n, "loadContent", "file-url"), n, "loadContent", "markdown")
    IN  IF c.isDevMode THEN Issue(w2, n, "loadContent", "file-url?original=true") ELSE w2

\* the effects of RedactionView after the commit that took the page from old
\* to w: the component mounts or unmounts with the route; loadContent is made
\* anew when realmId or dataroomId changed; useEffect(() => { if (id)
\* loadContent(id) }, [id, loadContent]); the cleanup of the object URLs
viewEffects(old, w) ==
    LET p == w.nav.path
        fresh == [Unmounted EXCEPT !.instance = w.nextInv, !.closure = Props(w.app)]
        depsChanged == <<w.app.realmId, w.app.selectedDataroomId>>
                           # <<w.view.closure.realmId, w.view.closure.dataroomId>>
        w1 == IF p = None THEN [w EXCEPT !.view = Unmounted]
              ELSE IF w.view.instance = 0
                   THEN loadContent([w EXCEPT !.view = fresh, !.nextInv = @ + 1], p[1])
              ELSE IF depsChanged
                   THEN loadContent([w EXCEPT !.view.closure = Props(w.app)], p[1])
              ELSE IF old.nav.path # p THEN loadContent(w, p[1])
              ELSE w
    IN  IF ContentUrls(old.view.documentContent) # ContentUrls(w1.view.documentContent)
        THEN [w1 EXCEPT !.liveUrls = @ \ ContentUrls(old.view.documentContent)]
        ELSE w1

\* a commit: the handler took the page to w, then the effects run (each stage
\* is bound as a value, so that it is computed once)
Commit(w) ==
    \E handled \in {w} :
        \E listed \in {documentsEffect(World, handled)} :
            \E viewed \in {viewEffects(World, listed)} : Becomes(viewed)

\* a state update of a RedactionView instance: dropped once it is unmounted
setView(w, instance, v) ==
    IF w.view.instance = instance /\ instance # 0 THEN [w EXCEPT !.view = v] ELSE w

\* Promise.all of invocation ld rejects as soon as one of its promises does
AllRejects(ld) == "rejected" \in {ld.cur, ld.orig, ld.md}

\* the mutant of loadContentResumes: setLoading(false) is at the end of the
\* branch of a loaded blob instead of in a finally block
loadContentResumesNoFinally(w, n, readOk) ==
    LET ld == w.contentLoads[n]
        rest == [End(w, n) EXCEPT !.contentLoads = [m \in DOMAIN @ \ {n} |-> @[m]]]
        dc == LoadedContent(n, ld, readOk)
    IN  IF ~AllRejects(ld) /\ ld.curBlob # None
        THEN setView([rest EXCEPT !.liveUrls = @ \cup ContentUrls(Some(dc))],
                     ld.instance,
                     [w.view EXCEPT !.documentContent = Some(dc), !.loading = FALSE])
        ELSE setView(rest, ld.instance, [w.view EXCEPT !.documentContent = None])

\* the mutant of loadContentResumes: the document is shown only when the
\* original, where it was asked for, arrived too
loadContentResumesStrict(w, n, readOk) ==
    LET ld == w.contentLoads[n]
        rest == [End(w, n) EXCEPT !.contentLoads = [m \in DOMAIN @ \ {n} |-> @[m]]]
        dc == LoadedContent(n, ld, readOk)
    IN  IF ld.curBlob # None /\ (ld.orig = "skip" \/ ld.origBlob # None)
        THEN setView([rest EXCEPT !.liveUrls = @ \cup ContentUrls(Some(dc))],
                     ld.instance,
                     [w.view EXCEPT !.documentContent = Some(dc), !.loading = FALSE])
        ELSE setView(rest, ld.instance,
                     [w.view EXCEPT !.documentContent = None, !.loading = FALSE])

\* loadContent after Promise.all settled, to its end: the catch block when it
\* rejected, else the rest of the try block; finally sets loading to false
loadContentResumes(w, n, readOk) ==
    LET ld == w.contentLoads[n]
        rest == [End(w, n) EXCEPT !.contentLoads = [m \in DOMAIN @ \ {n} |-> @[m]]]
        dc == LoadedContent(n, ld, readOk)
    IN  IF AllRejects(ld)
        THEN setView(rest, ld.instance,
                     [w.view EXCEPT !.documentContent = None, !.loading = FALSE])
        ELSE IF ld.curBlob # None
        THEN setView([rest EXCEPT !.liveUrls = @ \cup ContentUrls(Some(dc))],
                     ld.instance,
                     [w.view EXCEPT !.documentContent = Some(dc), !.loading = FALSE])
        ELSE setView(rest, ld.instance,
                     [w.view EXCEPT !.documentContent = None, !.loading = FALSE])

-----------------------------------------------------------------------------
(* What is rendered *)

\* the sidebar shows the document tree
TreeShown == ~app.isFetching /\ app.documents # <<>>

\* DocumentNode: the ids of the nodes that render a Link, the files at the top
\* level and in the folders the user can unfold
RECURSIVE FileIds(_)
FileIds(docs) ==
    IF docs = <<>> THEN {}
    ELSE (IF Head(docs).isFolder THEN {} ELSE {Head(docs).id})
         \cup (IF Head(docs).isFolder /\ Head(docs).children # None
               THEN FileIds(Head(docs).children[1]) ELSE {})
         \cup FileIds(Tail(docs))

\* which of RedactionView's returns is taken
Screen ==
    IF nav.path = None THEN "home"
    ELSE IF view.loading THEN "loading"
    ELSE IF view.documentContent = None THEN "failed"
    ELSE "viewer"

\* selectedDoc = id ? findDocument(documents, id) : undefined
selectedDoc == IF nav.path = None THEN None ELSE findDocument(app.documents, nav.path[1])

isOriginalView == view.currentPdfView = OriginalFileView

\* the mutant of currentPdfUrl: the view mode is not looked at
currentPdfUrlOfFile == Some(view.documentContent[1].blobUrl)

\* currentPdfUrl, as an optional URL
currentPdfUrl ==
    LET dc == view.documentContent[1]
    IN  IF isOriginalView /\ dc.originalBlobUrl # None
        THEN dc.originalBlobUrl
        ELSE Some(dc.blobUrl)

\* currentText
currentText ==
    LET dc == view.documentContent[1]
    IN  IF isOriginalView /\ dc.originalDocText # None /\ dc.originalDocText[1] # ""
        THEN dc.originalDocText
        ELSE dc.originalText

\* currentBlob
currentBlob ==
    LET dc == view.documentContent[1]
    IN  IF isOriginalView /\ dc.originalBlob # None
        THEN dc.originalBlob
        ELSE Some(dc.blob)

getPdfTitle ==
    IF view.currentPdfView = FileView THEN "Current File View (from data-room)"
    ELSE IF view.currentPdfView = OriginalFileView THEN "Original File View (Pre-Redaction)"
    ELSE "Redacted Document View"

\* detectedExt of the render, on the names and the blob type of the state
renderedExt ==
    LET dc == view.documentContent[1]
        name == IF selectedDoc # None /\ selectedDoc[1].filename # ""
                THEN selectedDoc[1].filename
                ELSE dc.filename
    IN  detectedExt(name, dc.blobType)

\* a value is truthy: defined and not the empty string
Truthy(o) == o # None /\ o[1] # ""

\* the viewer branches the JSX of the loaded view renders, each with what it
\* displays
Branches ==
    LET ext == renderedExt
    IN  (IF ext = Some("pdf") THEN {[branch |-> "pdf", shows |-> currentPdfUrl]} ELSE {})
        \cup (IF ext \in {Some("md"), Some("markdown"), Some("txt")} /\ Truthy(currentText)
              THEN {[branch |-> "markdown", shows |-> currentText]} ELSE {})
        \cup (IF ext \in {Some("csv"), Some("tsv")} /\ Truthy(currentText)
              THEN {[branch |-> "table", shows |-> currentText]} ELSE {})
        \cup (IF ext \in {Some("docx"), Some("doc")} /\ currentBlob # None
              THEN {[branch |-> "docx", shows |-> currentBlob]} ELSE {})
        \cup (IF ext \in {Some("xlsx"), Some("xls")} /\ currentBlob # None
              THEN {[branch |-> "xlsx", shows |-> currentBlob]} ELSE {})
        \cup (IF ext \in {Some("pptx"), Some("ppt")} /\ currentBlob # None
              THEN {[branch |-> "pptx", shows |-> currentBlob]} ELSE {})
        \cup (IF ext = Some("image") THEN {[branch |-> "image", shows |-> currentPdfUrl]} ELSE {})
        \cup (IF ext = None
              THEN {[branch |-> "unknown", shows |-> currentPdfUrl]} ELSE {})

-----------------------------------------------------------------------------
(* The user's actions on the App *)

\* how many searches, dataroom changes, Developer Mode switches and
\* navigations the user makes at most
MaxUserOps == 4

UserOpsDone ==
    userOps.search + userOps.dataroomChange + userOps.toggle + userOps.open
    + userOps.close

\* how many loadContent invocations await at most
MaxContentLoads == 1

MayLoadContent == Cardinality(DOMAIN contentLoads) < MaxContentLoads

\* how many loadContent invocations await at most where the user goes from
\* one document to the next without waiting
MaxOverlappingLoads == 2

\* what the user types into the realm field
SearchInputs == {"", " ", "r1", " r1 ", "r2", "zz"}

\* what the user types into the realm field of the earlier App
SearchInputsLegacy == {"361", "r1", "r2"}

\* the mutant of handleSearch: the id is compared as typed, then loaded
handleSearchAsTyped(w, newRealmId) ==
    IF newRealmId # w.app.realmId
    THEN navigate(loadDatarooms(w, newRealmId), None)
    ELSE w

\* handleSearch(newRealmId)
handleSearch(w, newRealmId) ==
    LET normalized == trim(newRealmId)
    IN  IF normalized # w.app.realmId
        THEN navigate(loadDatarooms(w, normalized), None)
        ELSE w

\* RealmSearch: the user types v and presses Search (disabled while fetching);
\* onSearch is App.handleSearch
Search(v) ==
    /\ ~app.isFetching
    /\ UserOpsDone < MaxUserOps
    /\ userOps' = [userOps EXCEPT
                     !.search = @ + 1,
                     !.loading = IF trim(v) \notin {app.realmId, ""} THEN @ + 1 ELSE @,
                     !.realm = trim(v),
                     !.last = IF trim(v) # app.realmId THEN "search" ELSE "searchSame"]
    /\ Commit(handleSearch(World, v))
    /\ UNCHANGED <<pureVars, server, returned>>

\* handleDataroomChange(newDataroomId)
handleDataroomChange(w, newDataroomId) ==
    navigate([w EXCEPT !.app.selectedDataroomId = newDataroomId], None)

\* the dataroom select (disabled while fetching or without datarooms) changes
\* to another option: handleDataroomChange
DataroomChange(d) ==
    /\ ~app.isFetching
    /\ app.datarooms # <<>>
    /\ \E i \in 1..Len(app.datarooms) : app.datarooms[i].id = d
    /\ d # app.selectedDataroomId
    /\ UserOpsDone < MaxUserOps
    /\ userOps' = [userOps EXCEPT !.dataroomChange = @ + 1, !.last = "dataroomChange"]
    /\ Commit(handleDataroomChange(World, d))
    /\ UNCHANGED <<pureVars, server, returned>>

\* the Developer Mode checkbox
ToggleDevMode ==
    /\ UserOpsDone < MaxUserOps
    /\ userOps' = [userOps EXCEPT !.toggle = @ + 1]
    /\ Commit([World EXCEPT !.app.isDevMode = ~@])
    /\ UNCHANGED <<pureVars, server, returned>>

\* the dataroom-list request of invocation n settles
DataroomsResponse(n, ok) ==
    /\ n \in DOMAIN listLoads
    /\ listLoads[n].fn = "loadDatarooms"
    /\ Commit(loadDataroomsSettles(World, n, fetchDatarooms(listLoads[n].realm, ok)))
    /\ UNCHANGED <<pureVars, server, userOps, returned>>

\* the document-list request of invocation n settles
DocumentsResponse(n, ok) ==
    /\ n \in DOMAIN listLoads
    /\ listLoads[n].fn = "loadDocuments"
    /\ LET p == fetchDocuments(listLoads[n].realm, listLoads[n].dataroom, ok)
       IN  /\ Commit(loadDocumentsSettles(World, n, p))
           /\ returned' = IF p.status = "fulfilled"
                          THEN Some([realm |-> listLoads[n].realm,
                                     dataroom |-> listLoads[n].dataroom,
                                     data |-> p.value])
                          ELSE returned
    /\ UNCHANGED <<pureVars, server, userOps>>

-----------------------------------------------------------------------------
(* The earlier App, whose realmId starts as '361' and whose dataroom effect *)
(* depends on realmId.  Its loadDocuments, the rest of its loadDatarooms    *)
(* after the await, its documents effect and its handleDataroomChange are   *)
(* those of the App above.                                                  *)

\* useState<string>('361')
LegacyRealmId == "361"

\* how many searches and dataroom selections the user of the earlier App makes
MaxLegacyOps == 2

\* how many invocations the earlier App makes at most: two loads of different
\* realms that are in flight together start each other anew without end
MaxLegacyInvocations == 8

\* the earlier loadDatarooms(id) up to its await: no normalization
loadDataroomsLegacy(w, id) ==
    LET n == w.nextInv
        cleared == [w EXCEPT !.app.isFetching = TRUE, !.app.error = None,
                             !.app.datarooms = <<>>, !.app.documents = <<>>,
                             !.app.selectedDataroomId = ""]
    IN  Issue([Begin(cleared, n, "loadDatarooms") EXCEPT
                  !.listLoads = @ @@ (n :> [fn |-> "loadDatarooms",
                                            realm |-> id, dataroom |-> ""])],
              n, "loadDatarooms", "datarooms")

\* the two effects of the earlier App after the commit that took it from old
\* to w: useEffect(() => { loadDatarooms(realmId) }, [loadDatarooms, realmId])
\* and then the documents effect, both on the values of the render of w; the
\* state they set is that of the next render, whose effects do nothing more
\* (realmId is unchanged and selectedDataroomId is '' or unchanged)
effectsLegacy(old, w) ==
    LET w1 == IF old.app.realmId # w.app.realmId
              THEN loadDataroomsLegacy(w, w.app.realmId) ELSE w
    IN  IF /\ <<old.app.realmId, old.app.selectedDataroomId>>
                # <<w.app.realmId, w.app.selectedDataroomId>>
           /\ w.app.selectedDataroomId # ""
        THEN loadDocuments(w1, w.app.realmId, w.app.selectedDataroomId)
        ELSE w1

\* a commit of the earlier App (no document is open: the page is at '/')
CommitLegacy(w) ==
    \E handled \in {w} : \E listed \in {effectsLegacy(World, handled)} : Becomes(listed)

\* the earlier handleSearch(newRealmId)
handleSearchLegacy(w, newRealmId) ==
    IF newRealmId # w.app.realmId
    THEN navigate(loadDataroomsLegacy(w, newRealmId), None)
    ELSE w

\* RealmSearch of the earlier App: v is typed and Search pressed
SearchLegacy(v) ==
    /\ ~app.isFetching
    /\ UserOpsDone < MaxLegacyOps
    /\ userOps' = [userOps EXCEPT
                     !.search = @ + 1,
                     !.loading = IF v # app.realmId THEN @ + 1 ELSE @,
                     !.realm = v,
                     !.last = IF v # app.realmId THEN "search" ELSE "searchSame"]
    /\ CommitLegacy(handleSearchLegacy(World, v))
    /\ UNCHANGED <<pureVars, server, returned>>

\* the dataroom select of the earlier App changes to another option
DataroomChangeLegacy(d) ==
    /\ ~app.isFetching
    /\ app.datarooms # <<>>
    /\ \E i \in 1..Len(app.datarooms) : app.datarooms[i].id = d
    /\ d # app.selectedDataroomId
    /\ UserOpsDone < MaxLegacyOps
    /\ userOps' = [userOps EXCEPT !.dataroomChange = @ + 1, !.last = "dataroomChange"]
    /\ CommitLegacy(handleDataroomChange(World, d))
    /\ UNCHANGED <<pureVars, server, returned>>

\* a dataroom-list request of the earlier App settles
DataroomsResponseLegacy(n, ok) ==
    /\ n \in DOMAIN listLoads
    /\ nextInv <= MaxLegacyInvocations
    /\ listLoads[n].fn = "loadDatarooms"
    /\ CommitLegacy(loadDataroomsSettles(World, n, fetchDatarooms(listLoads[n].realm, ok)))
    /\ UNCHANGED <<pureVars, server, userOps, returned>>

\* a document-list request of the earlier App settles
DocumentsResponseLegacy(n, ok) ==
    /\ n \in DOMAIN listLoads
    /\ nextInv <= MaxLegacyInvocations
    /\ listLoads[n].fn = "loadDocuments"
    /\ LET p == fetchDocuments(listLoads[n].realm, listLoads[n].dataroom, ok)
       IN  /\ CommitLegacy(loadDocumentsSettles(World, n, p))
           /\ returned' = IF p.status = "fulfilled"
                          THEN Some([realm |-> listLoads[n].realm,
                                     dataroom |-> listLoads[n].dataroom,
                                     data |-> p.value])
                          ELSE returned
    /\ UNCHANGED <<pureVars, server, userOps>>

-----------------------------------------------------------------------------
(* The user's actions on the document page, and its requests *)

\* DocumentNode: the Link of a file of the tree, to /document/<id>, clicked
\* while fewer than limit loads are running
OpenDocumentWithin(id, limit) ==
    /\ TreeShown
    /\ id \in FileIds(app.documents)
    /\ nav.path # Some(id)
    /\ UserOpsDone < MaxUserOps
    /\ Cardinality(DOMAIN contentLoads) < limit
    /\ userOps' = [userOps EXCEPT !.open = @ + 1, !.toDocument = @ + 1, !.last = "open"]
    /\ Commit(navigate(World, Some(id)))
    /\ UNCHANGED <<pureVars, server, returned>>

OpenDocument(id) == OpenDocumentWithin(id, MaxContentLoads)

\* the promise p of fetchFileBlob settled in invocation n
blobSettles(w, n, original, p) ==
    LET blob == IF p.status = "fulfilled" THEN p.value ELSE None
        stage == IF p.status = "fulfilled" THEN "done" ELSE "rejected"
    IN  IF original
        THEN [w EXCEPT !.contentLoads[n].orig = stage, !.contentLoads[n].origBlob = blob]
        ELSE [w EXCEPT !.contentLoads[n].cur = stage, !.contentLoads[n].curBlob = blob]

\* the mutant of fileUrlArrives: the download is requested whatever fetchFileUrl
\* returned
fileUrlArrivesBlind(w, n, original, outcome) ==
    LET w1 == IF original THEN [w EXCEPT !.contentLoads[n].orig = "blob"]
              ELSE [w EXCEPT !.contentLoads[n].cur = "blob"]
    IN  Issue(w1, n, "loadContent",
              IF original THEN "download?original=true" ELSE "download")

\* the mutant of fileUrlArrives: a failed fetchFileUrl is tried again
fileUrlArrivesRetry(w, n, original, outcome) ==
    LET kind == IF original THEN "file-url?original=true" ELSE "file-url"
        w1 == IF original THEN [w EXCEPT !.contentLoads[n].orig = "blob"]
              ELSE [w EXCEPT !.contentLoads[n].cur = "blob"]
    IN  IF outcome = "url"
        THEN Issue(w1, n, "loadContent",
                   IF original THEN "download?original=true" ELSE "download")
        ELSE Issue(w, n, "loadContent", kind)

\* fetchFileBlob after fetchFileUrl settled: with a URL the download request
\* is issued, without one (or on an error) the blob is null
fileUrlArrives(w, n, original, outcome) ==
    LET fileUrl == fetchFileUrl(w.contentLoads[n].docId, original, outcome)
        w1 == IF original THEN [w EXCEPT !.contentLoads[n].orig = "blob"]
              ELSE [w EXCEPT !.contentLoads[n].cur = "blob"]
    IN  IF fileUrl.status = "fulfilled" /\ fileUrl.value # None
        THEN Issue(w1, n, "loadContent",
                   IF original THEN "download?original=true" ELSE "download")
        ELSE blobSettles(w, n, original, fetchFileBlobWithoutUrl(fileUrl))

FileUrlResponse(n, original, outcome) ==
    /\ n \in DOMAIN contentLoads
    /\ IF original THEN contentLoads[n].orig = "url" ELSE contentLoads[n].cur = "url"
    /\ outcome = "url" => contentLoads[n].docId \in DOMAIN server.files
    /\ Commit(fileUrlArrives(World, n, original, outcome))
    /\ UNCHANGED <<pureVars, server, userOps, returned>>

\* the percentages onDownloadProgress reports
ProgressPercents == {50}

\* onDownloadProgress of the download of the current file: onProgress is
\* setDownloadProgress; the download of the original has no onProgress
DownloadProgress(n, percent) ==
    /\ n \in DOMAIN contentLoads
    /\ contentLoads[n].cur = "blob"
    /\ Commit(setView(World, contentLoads[n].instance,
                      [view EXCEPT !.downloadProgress = percent]))
    /\ UNCHANGED <<pureVars, server, userOps, returned>>

\* fetchFileBlob after the download settled
downloadArrives(w, n, original, ok) ==
    blobSettles(w, n, original,
                fetchFileBlobDownloads(w.contentLoads[n].docId, original, ok))

DownloadResponse(n, original, ok) ==
    /\ n \in DOMAIN contentLoads
    /\ IF original THEN contentLoads[n].orig = "blob" ELSE contentLoads[n].cur = "blob"
    /\ Commit(downloadArrives(World, n, original, ok))
    /\ UNCHANGED <<pureVars, server, userOps, returned>>

\* fetchDocumentMarkdown settles
MarkdownResponse(n, ok) ==
    /\ n \in DOMAIN contentLoads
    /\ contentLoads[n].md = "pending"
    /\ LET p == fetchDocumentMarkdown(contentLoads[n].docId, ok)
       IN  Commit([World EXCEPT
                     !.contentLoads[n].md = IF p.status = "fulfilled" THEN "done"
                                             ELSE "rejected",
                     !.contentLoads[n].redacted =
                         IF p.status = "fulfilled" THEN p.value ELSE @])
    /\ UNCHANGED <<pureVars, server, userOps, returned>>

\* Promise.all of invocation ld has settled: one of its promises rejected, or
\* all of them are fulfilled
AllSettled(ld) ==
    \/ AllRejects(ld)
    \/ /\ ld.cur = "done"
       /\ ld.orig \in {"done", "skip"}
       /\ ld.md = "done"

\* Promise.all settled: loadContent runs to its end; the reads of the blobs'
\* text it awaits change no state and are part of the step
ContentResumes(n, readOk) ==
    /\ n \in DOMAIN contentLoads
    /\ AllSettled(contentLoads[n])
    /\ ~readOk => ReadsText(contentLoads[n])
    /\ Commit(loadContentResumes(World, n, readOk))
    /\ UNCHANGED <<pureVars, server, userOps, returned>>

\* the File View and Original File View buttons of the loaded view; the
\* second is rendered in developer mode only
SetCurrentPdfView(mode) ==
    /\ Screen = "viewer"
    /\ mode # view.currentPdfView
    /\ mode = OriginalFileView => app.isDevMode
    /\ Commit([World EXCEPT !.view.currentPdfView = mode])
    /\ UNCHANGED <<pureVars, server, userOps, returned>>

\* the View Redacted button, and the close button of the markdown pane
SetShowRedactedSection(show) ==
    /\ Screen = "viewer"
    /\ show # view.showRedactedSection
    /\ Commit([World EXCEPT !.view.showRedactedSection = show])
    /\ UNCHANGED <<pureVars, server, userOps, returned>>

\* handleClose: revoke the object URLs, then navigate(-1)
handleClose(w) ==
    LET h == w.nav.history
        back == SubSeq(h, 1, Len(h) - 1)
        revoked == [w EXCEPT !.liveUrls = @ \ ContentUrls(w.view.documentContent)]
    IN  IF Len(h) > 1
        THEN [revoked EXCEPT !.nav = [path |-> back[Len(back)], history |-> back]]
        ELSE revoked

Close ==
    /\ Screen = "viewer"
    /\ UserOpsDone < MaxUserOps
    /\ handleClose(World).nav.path # None => MayLoadContent
    /\ userOps' = [userOps EXCEPT
                     !.close = @ + 1,
                     !.toDocument = IF handleClose(World).nav.path # None THEN @ + 1 ELSE @,
                     !.last = "close"]
    /\ Commit(handleClose(World))
    /\ UNCHANGED <<pureVars, server, returned>>

-----------------------------------------------------------------------------
(* Backends *)

\* a file of a dataroom's tree, as the documents endpoint lists it
FileDoc(id, filename, originalName) ==
    [id |-> id, filename |-> filename, original_name |-> originalName,
     name |-> None, isFolder |-> FALSE, children |-> None]

FolderDoc(id, name, children) ==
    [id |-> id, filename |-> "", original_name |-> None,
     name |-> Some(name), isFolder |-> TRUE, children |-> Some(children)]

DataroomOf(id, realm) == [id |-> id, name |-> id, realm_id |-> realm]

PdfFile ==
    [type |-> "application/pdf", text |-> "%PDF redacted",
     originalText |-> "%PDF original", markdown |-> "# B"]

\* a backend with one realm r1 of one dataroom d1, whose tree is a folder
\* holding document A
ViewServer(type, filename, originalName, text, originalText) ==
    [datarooms |-> ("r1" :> <<DataroomOf("d1", "r1")>>),
     documents |-> (<<"r1", "d1">> :>
                       <<FolderDoc("F", "Folder", <<FileDoc("A", filename, originalName)>>)>>),
     files |-> ("A" :> [type |-> type, text |-> text, originalText |-> originalText,
                        markdown |-> "# A"])]

\* what document A is: its MIME type, its filename and original_name in the
\* tree, the text of the current file and of the original
FileCases ==
    {<<"application/pdf", "report.pdf", Some("report.pdf"), "%PDF cur", "%PDF orig">>,
     <<"text/plain", "notes.txt", Some("notes.txt"), "redacted", "secret">>,
     <<"text/plain", "notes.txt", Some("notes.txt"), "", "">>,
     <<"text/plain", "notes.txt", Some("notes.txt"), "redacted", "">>,
     <<"text/csv", "DATA.CSV", Some("DATA.CSV"), "a,b", "a,b,c">>,
     <<"application/octet-stream", "notes.md", Some("notes.md"), "# cur", "# orig">>,
     <<"application/octet-stream", "notes.md", None, "# cur", "# orig">>,
     <<"application/octet-stream", "data.tsv", Some("data.tsv"), "a b", "a b c">>,
     <<"application/octet-stream", "archive.zip", Some("archive.zip"), "PK", "PK0">>,
     <<"application/octet-stream", "photo.png", Some("photo.png"), "PNG", "PNG0">>,
     <<"application/octet-stream", "README", Some("README"), "read", "READ">>,
     <<"", "", None, "x", "y">>,
     <<"application/msword", "letter.doc", Some("letter.doc"), "doc", "DOC">>,
     <<"image/png", "photo.png", Some("photo.png"), "PNG", "PNG0">>}

ViewServers == {ViewServer(c[1], c[2], c[3], c[4], c[5]) : c \in FileCases}

\* a backend with realm r1 of datarooms d1 (folder with document A, and B) and
\* d2 (no documents), and realm r2 of dataroom d3 (document C)
AppServer ==
    [datarooms |-> ("r1" :> <<DataroomOf("d1", "r1"), DataroomOf("d2", "r1")>>)
                   @@ ("r2" :> <<DataroomOf("d3", "r2")>>),
     documents |-> (<<"r1", "d1">> :>
                       <<FolderDoc("F", "Folder", <<FileDoc("A", "notes.txt", Some("notes.txt"))>>),
                         FileDoc("B", "b.pdf", Some("b.pdf"))>>)
                   @@ (<<"r1", "d2">> :> <<>>)
                   @@ (<<"r2", "d3">> :> <<FileDoc("C", "c.pdf", Some("c.pdf"))>>),
     files |-> ("A" :> [type |-> "text/plain", text |-> "redacted",
                        originalText |-> "secret", markdown |-> "# A"])
               @@ ("B" :> PdfFile) @@ ("C" :> PdfFile)]

NoServer == [datarooms |-> <<>>, documents |-> <<>>, files |-> <<>>]

-----------------------------------------------------------------------------
(* DocumentNode *)

\* the largest number of nodes of a rendered tree
MaxTreeNodes == 3

\* the ordered forests of exactly n nodes, without their ids: a node is a
\* folder or not, and has children or not (a file with children is data the
\* backend may send)
RECURSIVE TreeShapes(_)
TreeShapes(n) ==
    IF n = 0 THEN {<<>>}
    ELSE UNION {
           LET kids == TreeShapes(k)
               rest == TreeShapes(n - 1 - k)
           IN  {<<[isFolder |-> b, children |-> c]>> \o r :
                    b \in BOOLEAN,
                    c \in {Some(f) : f \in kids} \cup (IF k = 0 THEN {None} ELSE {}),
                    r \in rest}
           : k \in 0..(n - 1)}

\* the children of a node, none when the field is absent
ChildrenOf(node) == IF node.children = None THEN <<>> ELSE node.children[1]

RECURSIVE TreeSize(_)
TreeSize(docs) ==
    IF docs = <<>> THEN 0
    ELSE 1 + TreeSize(ChildrenOf(docs[1])) + TreeSize(Tail(docs))

\* the forest with ids n<k>, n<k+1>, ... given in document order
RECURSIVE WithIds(_, _)
WithIds(docs, k) ==
    IF docs = <<>> THEN <<>>
    ELSE LET h == docs[1]
             kids == ChildrenOf(h)
         IN  <<[id |-> "n" \o ToString(k),
                isFolder |-> h.isFolder,
                children |-> IF h.children = None THEN None
                             ELSE Some(WithIds(kids, k + 1))]>>
             \o WithIds(Tail(docs), k + 1 + TreeSize(kids))

TreeInputs == {WithIds(f, 1) : f \in UNION {TreeShapes(n) : n \in 0..MaxTreeNodes}}

\* the document at a position: position <<2, 1>> is the first child of the
\* second top-level document
RECURSIVE NodeAt(_, _)
NodeAt(docs, p) ==
    IF Len(p) = 1 THEN docs[p[1]]
    ELSE NodeAt(ChildrenOf(docs[p[1]]), Tail(p))

\* isOpen of the instance at a position; an instance that is not mounted has
\* no state
IsOpenAt(open, p) == p \in DOMAIN open /\ open[p]

\* what one DocumentNode returns: whether its row is the selected one, the
\* target of its Link when it has one, and whether it renders its children
DocumentNodeRow(document, isOpen, pathname) ==
    [selected |-> pathname = "/document/" \o document.id,
     link |-> IF ~document.isFolder THEN Some("/document/" \o document.id) ELSE None,
     children |-> document.isFolder /\ document.children # None /\ isOpen]

\* the positions of the DocumentNode instances a render of the tree mounts
RECURSIVE RenderedNodes(_, _, _, _)
RenderedNodes(docs, prefix, open, pathname) ==
    UNION {LET p == Append(prefix, i)
           IN  {p} \cup
               IF DocumentNodeRow(docs[i], IsOpenAt(open, p), pathname).children
               THEN RenderedNodes(ChildrenOf(docs[i]), p, open, pathname)
               ELSE {}
           : i \in 1..Len(docs)}

\* React's reconciliation after a state change: an instance that stays keeps
\* its state, a new instance starts from useState(false), a removed one
\* loses its state
Reconciled(docs, open, pathname) ==
    [p \in RenderedNodes(docs, <<>>, open, pathname) |-> IsOpenAt(open, p)]

\* the mutant of handleNodeClick: every row toggles
handleNodeClickAnyRow(open, document, p) ==
    [open EXCEPT ![p] = ~@]

\* handleNodeClick of the instance at position p
handleNodeClick(open, document, p) ==
    IF document.isFolder THEN [open EXCEPT ![p] = ~@] ELSE open

\* the last click: on a row or a link, at which position, isOpen there before
\* it, and whether the click before it was on the same row
NoClick == [op |-> "none", at |-> <<>>, was |-> FALSE, again |-> FALSE]

\* the tree is not part of the run
TreeIdle ==
    /\ tDocs = <<>>
    /\ tOpen = <<>>
    /\ tPath = "/"
    /\ tLast = NoClick

\* the first render of a tree on the route /
TreeInit ==
    /\ tDocs \in TreeInputs
    /\ tOpen = Reconciled(tDocs, <<>>, "/")
    /\ tPath = "/"
    /\ tLast = NoClick

\* a click on the row of the mounted node at p, outside its link
NodeClick(p) ==
    /\ p \in DOMAIN tOpen
    /\ tOpen' = Reconciled(tDocs, handleNodeClick(tOpen, NodeAt(tDocs, p), p), tPath)
    /\ tLast' = [op |-> "row", at |-> p, was |-> tOpen[p],
                 again |-> tLast.op = "row" /\ tLast.at = p]
    /\ UNCHANGED <<tDocs, tPath>>
    /\ UNCHANGED <<detectVars, findVars, pageVars>>

\* a click on the Link of the mounted node at p: handleLinkClick stops the
\* propagation to the row, and the router goes to the link's target
LinkClick(p) ==
    /\ p \in DOMAIN tOpen
    /\ DocumentNodeRow(NodeAt(tDocs, p), tOpen[p], tPath).link # None
    /\ tPath' = DocumentNodeRow(NodeAt(tDocs, p), tOpen[p], tPath).link[1]
    /\ tOpen' = Reconciled(tDocs, tOpen, tPath')
    /\ tLast' = [op |-> "link", at |-> p, was |-> tOpen[p], again |-> FALSE]
    /\ UNCHANGED tDocs
    /\ UNCHANGED <<detectVars, findVars, pageVars>>

-----------------------------------------------------------------------------
(* Initial states *)

\* what the user did so far: the count of each action, loading (searches that
\* called loadDatarooms with a realm), toDocument (navigations that ended on a
\* document), realm (the realm of the last search) and last (the last action
\* other than a Developer Mode switch)
NoUserOps ==
    [search |-> 0, dataroomChange |-> 0, toggle |-> 0, open |-> 0, close |-> 0,
     loading |-> 0, toDocument |-> 0, realm |-> "", last |-> "none"]

\* the page after its first render and the mount effect, loadDatarooms(''),
\* which only clears the (empty) state
PageStarts ==
    /\ app = AppInitial
    /\ nav = [path |-> None, history |-> <<None>>]
    /\ listLoads = <<>>
    /\ view = Unmounted
    /\ contentLoads = <<>>
    /\ liveUrls = {}
    /\ nextInv = 1
    /\ reqLog = <<>>
    /\ invoked = [loadDatarooms |-> 0, loadDocuments |-> 0, loadContent |-> 0]
    /\ userOps = NoUserOps
    /\ returned = None

\* the page is not part of the run
PageIdle == server = NoServer /\ PageStarts

\* the page once a search for r1 loaded the realm's datarooms and the
\* documents of its first dataroom
PageLoaded ==
    /\ app = [AppInitial EXCEPT !.realmId = "r1",
                                !.datarooms = ServerDatarooms("r1"),
                                !.selectedDataroomId = "d1",
                                !.documents = ServerDocuments("r1", "d1")]
    /\ nav = [path |-> None, history |-> <<None, None>>]
    /\ listLoads = <<>>
    /\ view = Unmounted
    /\ contentLoads = <<>>
    /\ liveUrls = {}
    /\ nextInv = 3
    /\ reqLog = <<>>
    /\ invoked = [loadDatarooms |-> 1, loadDocuments |-> 1, loadContent |-> 0]
    /\ userOps = [NoUserOps EXCEPT !.search = 1, !.loading = 1, !.realm = "r1",
                                    !.last = "search"]
    /\ returned = Some([realm |-> "r1", dataroom |-> "d1",
                        data |-> ServerDocuments("r1", "d1")])

\* the earlier App after its first render and its mount effects:
\* loadDatarooms('361') awaits its request
PageStartsLegacy ==
    LET mounted == loadDataroomsLegacy(
                       [app |-> [AppInitial EXCEPT !.realmId = LegacyRealmId],
                        nav |-> [path |-> None, history |-> <<None>>],
                        listLoads |-> <<>>, view |-> Unmounted, contentLoads |-> <<>>,
                        liveUrls |-> {}, nextInv |-> 1, reqLog |-> <<>>,
                        invoked |-> [loadDatarooms |-> 0, loadDocuments |-> 0,
                                     loadContent |-> 0]],
                       LegacyRealmId)
    IN  /\ app = mounted.app
        /\ nav = mounted.nav
        /\ listLoads = mounted.listLoads
        /\ view = mounted.view
        /\ contentLoads = mounted.contentLoads
        /\ liveUrls = mounted.liveUrls
        /\ nextInv = mounted.nextInv
        /\ reqLog = mounted.reqLog
        /\ invoked = mounted.invoked
        /\ userOps = NoUserOps
        /\ returned = None

-----------------------------------------------------------------------------
(* Specifications *)

InitDetect == DetectInit /\ FindIdle /\ TreeIdle /\ PageIdle

InitDetectReal == DetectRealInit /\ FindIdle /\ TreeIdle /\ PageIdle

DetectNext == Detect /\ UNCHANGED <<findVars, treeVars, pageVars>>

\* the detection on one input
SpecDetect == InitDetect /\ [][DetectNext]_vars

SpecDetectReal == InitDetectReal /\ [][DetectNext]_vars

InitFind == FindInit /\ DetectIdle /\ TreeIdle /\ PageIdle

FindNext == Find /\ UNCHANGED <<detectVars, treeVars, pageVars>>

\* findDocument on one input
SpecFind == InitFind /\ [][FindNext]_vars

AppActions ==
    \/ \E v \in SearchInputs : Search(v)
    \/ \E d \in {"d1", "d2", "d3"} : DataroomChange(d)
    \/ ToggleDevMode
    \/ \E n \in DOMAIN listLoads, ok \in BOOLEAN : DataroomsResponse(n, ok)
    \/ \E n \in DOMAIN listLoads, ok \in BOOLEAN : DocumentsResponse(n, ok)

ViewActions ==
    \/ \E id \in {"A", "B", "C"} : OpenDocument(id)
    \/ \E n \in DOMAIN contentLoads, original \in BOOLEAN,
          outcome \in {"url", "empty", "error"} : FileUrlResponse(n, original, outcome)
    \/ \E n \in DOMAIN contentLoads, percent \in ProgressPercents :
          DownloadProgress(n, percent)
    \/ \E n \in DOMAIN contentLoads, original \in BOOLEAN, ok \in BOOLEAN :
          DownloadResponse(n, original, ok)
    \/ \E n \in DOMAIN contentLoads, ok \in BOOLEAN : MarkdownResponse(n, ok)
    \/ \E n \in DOMAIN contentLoads, readOk \in BOOLEAN : ContentResumes(n, readOk)
    \/ \E mode \in {FileView, OriginalFileView} : SetCurrentPdfView(mode)
    \/ \E show \in BOOLEAN : SetShowRedactedSection(show)
    \/ Close

InitApp == server = AppServer /\ PageStarts /\ DetectIdle /\ FindIdle /\ TreeIdle

AppNext == AppActions

\* the App alone: realm search, dataroom selection, the two list requests
SpecApp == InitApp /\ [][AppNext]_vars

\* every list request settles
SpecAppFair ==
    /\ InitApp
    /\ [][AppNext]_vars
    /\ WF_vars(\E n \in DOMAIN listLoads, ok \in BOOLEAN : DataroomsResponse(n, ok))
    /\ WF_vars(\E n \in DOMAIN listLoads, ok \in BOOLEAN : DocumentsResponse(n, ok))

InitView == server \in ViewServers /\ PageLoaded /\ DetectIdle /\ FindIdle /\ TreeIdle

ViewNext == ViewActions \/ ToggleDevMode

\* the document page of a loaded dataroom, over the kinds of file
SpecView == InitView /\ [][ViewNext]_vars

\* the document page when every request settles and the continuation of an
\* await whose promises have settled is run.  The last conjunct is the weak
\* fairness of ContentResumes written out: the action is enabled exactly when
\* Promise.all of some invocation has settled.
SpecViewFair ==
    /\ InitView
    /\ [][ViewNext]_vars
    /\ WF_vars(\E n \in DOMAIN contentLoads, original \in BOOLEAN,
                  outcome \in {"url", "empty", "error"} :
                    FileUrlResponse(n, original, outcome))
    /\ WF_vars(\E n \in DOMAIN contentLoads, original \in BOOLEAN, ok \in BOOLEAN :
                    DownloadResponse(n, original, ok))
    /\ WF_vars(\E n \in DOMAIN contentLoads, ok \in BOOLEAN : MarkdownResponse(n, ok))
    /\ \/ []<>(\A n \in DOMAIN contentLoads : ~AllSettled(contentLoads[n]))
       \/ []<><<\E n \in DOMAIN contentLoads, readOk \in BOOLEAN :
                    ContentResumes(n, readOk)>>_vars

InitOverlap == server = AppServer /\ PageLoaded /\ DetectIdle /\ FindIdle /\ TreeIdle

OverlapNext ==
    \/ \E id \in {"A", "B", "C"} : OpenDocumentWithin(id, MaxOverlappingLoads)
    \/ \E n \in DOMAIN contentLoads, original \in BOOLEAN,
          outcome \in {"url", "empty", "error"} : FileUrlResponse(n, original, outcome)
    \/ \E n \in DOMAIN contentLoads, percent \in ProgressPercents :
          DownloadProgress(n, percent)
    \/ \E n \in DOMAIN contentLoads, original \in BOOLEAN, ok \in BOOLEAN :
          DownloadResponse(n, original, ok)
    \/ \E n \in DOMAIN contentLoads, ok \in BOOLEAN : MarkdownResponse(n, ok)
    \/ \E n \in DOMAIN contentLoads, readOk \in BOOLEAN : ContentResumes(n, readOk)

\* the document page of a loaded dataroom of two documents, where the user
\* goes from one document to the other without waiting for the first to load
SpecOverlap == InitOverlap /\ [][OverlapNext]_vars

InitLegacy == server = AppServer /\ PageStartsLegacy /\ DetectIdle /\ FindIdle /\ TreeIdle

LegacyNext ==
    \/ \E v \in SearchInputsLegacy : SearchLegacy(v)
    \/ \E d \in {"d1", "d2", "d3"} : DataroomChangeLegacy(d)
    \/ \E n \in DOMAIN listLoads, ok \in BOOLEAN : DataroomsResponseLegacy(n, ok)
    \/ \E n \in DOMAIN listLoads, ok \in BOOLEAN : DocumentsResponseLegacy(n, ok)

\* the earlier App alone
SpecLegacyApp == InitLegacy /\ [][LegacyNext]_vars

InitSys == InitApp

SysNext == AppActions \/ ViewActions

\* the whole page
SpecSys == InitSys /\ [][SysNext]_vars

\* the document tree alone: every tree of up to MaxTreeNodes nodes, under
\* every sequence of clicks on its rows and links
InitTree == TreeInit /\ DetectIdle /\ FindIdle /\ PageIdle

TreeNext ==
    \/ \E p \in DOMAIN tOpen : NodeClick(p)
    \/ \E p \in DOMAIN tOpen : LinkClick(p)

SpecTree == InitTree /\ [][TreeNext]_vars

-----------------------------------------------------------------------------
(* The table of the specification, read top to bottom *)

SpecTable ==
    << [kind |-> "contains", pats |-> {"pdf"},                          cat |-> "pdf"],
       [kind |-> "contains", pats |-> {"spreadsheet", "excel", "sheet"}, cat |-> "xlsx"],
       [kind |-> "contains", pats |-> {"wordprocessingml", "msword"},   cat |-> "docx"],
       [kind |-> "contains", pats |-> {"presentationml", "powerpoint"}, cat |-> "pptx"],
       [kind |-> "prefix",   pats |-> {"text/"},                        cat |-> "txt"],
       [kind |-> "contains", pats |-> {"csv"},                          cat |-> "csv"],
       [kind |-> "contains", pats |-> {"markdown"},                     cat |-> "md"],
       [kind |-> "prefix",   pats |-> {"image/"},                       cat |-> "image"] >>

RowMatches(row, lower) ==
    IF row.kind = "contains"
    THEN \E p \in row.pats : includes(lower, p)
    ELSE \E p \in row.pats : startsWith(lower, p)

\* the rows of the table the lower-cased MIME type matches
MatchingRows(bt) ==
    LET lower == toLowerCase(bt)
    IN  {i \in 1..Len(SpecTable) : RowMatches(SpecTable[i], lower)}

FirstRow(rows) == CHOOSE i \in rows : \A j \in rows : i <= j

\* C1: once the detection ran on a MIME type at least one row of the table
\* matches, its result is the category of the first matching row, whatever the
\* filename is.
C1_FirstMatchingRowWins ==
    (dPc = "done" /\ MatchingRows(dBlobType) # {})
        => dOut = Some(SpecTable[FirstRow(MatchingRows(dBlobType))].cat)

\* C1 witness: the detection ran on a MIME type that matches several rows while
\* the filename carries another extension, and the first row won.
C1_Witness ==
    /\ dPc = "done"
    /\ Cardinality(MatchingRows(dBlobType)) >= 2
    /\ HasDot(dName)
    /\ toLowerCase(SplitPop(dName)) # ""
    /\ dOut # Some(toLowerCase(SplitPop(dName)))
    /\ dOut = Some(SpecTable[FirstRow(MatchingRows(dBlobType))].cat)

\* C2 as stated: with no matching row the result is the lower-cased text after
\* the last '.', and unknown exactly when the filename has no '.' (the empty
\* filename included).
C2_Original ==
    (dPc = "done" /\ MatchingRows(dBlobType) = {})
        => dOut = IF HasDot(dName) THEN Some(toLowerCase(SplitPop(dName))) ELSE None

\* C2 as amended: with no matching row the result is the lower-cased text after
\* the last '.' when that text is not empty, and unknown when the filename has
\* no '.', is empty, or ends with '.'.
C2_ExtensionFallback ==
    (dPc = "done" /\ MatchingRows(dBlobType) = {})
        => dOut = IF HasDot(dName) /\ SplitPop(dName) # ""
                  THEN Some(toLowerCase(SplitPop(dName)))
                  ELSE None

\* C2 witness: the fallback returned an upper-case extension lower-cased.
C2_Witness ==
    /\ dPc = "done"
    /\ MatchingRows(dBlobType) = {}
    /\ dName = "DATA.CSV"
    /\ dOut = Some("csv")

\* C2 witness of the unknown result: no row matched and the filename has no
\* extension.
C2_WitnessUnknown ==
    /\ dPc = "done"
    /\ MatchingRows(dBlobType) = {}
    /\ dName = "report"
    /\ dOut = None

\* C3 as stated: every MIME type that contains "csv" is detected as csv.
C3_CsvDetected ==
    (dPc = "done" /\ includes(toLowerCase(dBlobType), "csv")) => dOut = Some("csv")

\* C4 as stated: every MIME type that contains "markdown" is detected as md.
C4_MarkdownDetected ==
    (dPc = "done" /\ includes(toLowerCase(dBlobType), "markdown")) => dOut = Some("md")

-----------------------------------------------------------------------------
(* findDocument against the pre-order traversal of the tree *)

\* the nodes of a forest in pre-order, depth first
RECURSIVE PreOrder(_)
PreOrder(docs) ==
    IF docs = <<>> THEN <<>>
    ELSE <<Head(docs)>>
         \o (IF Head(docs).children # None THEN PreOrder(Head(docs).children[1]) ELSE <<>>)
         \o PreOrder(Tail(docs))

\* the positions of the pre-order traversal that carry the id
Carriers(docs, id) == {i \in 1..Len(PreOrder(docs)) : PreOrder(docs)[i].id = id}

\* C7: findDocument returns undefined exactly when no node at any depth carries
\* the id, and otherwise the first node in pre-order that carries it.
C7_FindIsFirstInPreOrder ==
    fPc = "done"
        => fOut = IF Carriers(fDocs, fId) = {}
                  THEN None
                  ELSE Some(PreOrder(fDocs)[FirstRow(Carriers(fDocs, fId))])

\* C7 witness: the id is carried by a node nested under an earlier root and by
\* a later root, and the lookup returned the nested node, whose id is the one
\* asked for.
C7_Witness ==
    /\ fPc = "done"
    /\ Len(fDocs) >= 2
    /\ fDocs[1].id # fId
    /\ fDocs[2].id = fId
    /\ fDocs[1].children # None
    /\ Carriers(fDocs[1].children[1], fId) # {}
    /\ fOut # None
    /\ fOut[1].id = fId
    /\ fOut[1] # fDocs[2]

\* C7 witness of the undefined result: the tree is not empty and no node
\* carries the id.
C7_WitnessAbsent ==
    /\ fPc = "done"
    /\ Len(PreOrder(fDocs)) >= 3
    /\ Carriers(fDocs, fId) = {}
    /\ fOut = None

-----------------------------------------------------------------------------
(* The viewer of a loaded document *)

\* the viewers the loaded view renders
RenderedViewers == {b.branch : b \in Branches}

\* C5: whenever a document is loaded (loading false, documentContent not
\* null), exactly one of the viewer branches is rendered, for every MIME type,
\* filename and content.
C5_ExactlyOneViewer ==
    Screen = "viewer" => Cardinality(RenderedViewers) = 1

\* C6: when the type detection yields unknown, the view renders the 'Unknown
\* file type' download link and no other viewer, and the link points at the
\* object URL of the blob the view mode selects: the original's in Original
\* File View when the original was downloaded, the current file's otherwise.
C6_UnknownRendersDownloadLink ==
    (Screen = "viewer" /\ renderedExt = None) =>
        LET dc == view.documentContent[1]
            selected == IF view.currentPdfView = OriginalFileView /\ dc.originalBlob # None
                        THEN dc.originalBlobUrl[1]
                        ELSE dc.blobUrl
        IN  /\ Branches = {[branch |-> "unknown", shows |-> Some(selected)]}
            /\ selected \in liveUrls
            /\ selected.original = (isOriginalView /\ dc.originalBlob # None)

\* an unknown type shown in Original File View with the original downloaded
C6_Witness ==
    /\ Screen = "viewer"
    /\ renderedExt = None
    /\ isOriginalView
    /\ view.documentContent[1].originalBlob # None
    /\ "unknown" \in RenderedViewers

\* C8: in Original File View the title is 'Original File View
\* (Pre-Redaction)' and the URL, the blob and the text displayed are those of
\* the original fetched with original=true, never the current file's.
C8_OriginalViewShowsOriginal ==
    (Screen = "viewer" /\ isOriginalView) =>
        /\ getPdfTitle = "Original File View (Pre-Redaction)"
        /\ currentPdfUrl[1].original
        /\ currentBlob[1].original
        /\ currentText # None =>
               currentText[1] = server.files[currentBlob[1].doc].originalText

-----------------------------------------------------------------------------
(* The App's lists *)

\* the last thing the user did is a search that loaded a non-empty list of
\* datarooms
SearchLoadedDatarooms == userOps.last = "search" /\ app.datarooms # <<>>

\* the search has settled: the first dataroom's documents are shown
SearchSettled ==
    /\ ~app.isFetching
    /\ app.realmId = userOps.realm
    /\ app.selectedDataroomId = app.datarooms[1].id
    /\ returned = Some([realm |-> userOps.realm, dataroom |-> app.datarooms[1].id,
                        data |-> app.documents])

C10_NoRetryNoCache ==
    /\ \A k \in DOMAIN reqLog :
          reqLog[k] = 1 /\ k[1] \in DOMAIN listLoads \cup DOMAIN contentLoads
    /\ invoked.loadDatarooms = userOps.loading
    /\ invoked.loadDocuments <= invoked.loadDatarooms + userOps.dataroomChange
    /\ invoked.loadContent = userOps.toDocument
    /\ \A n \in DOMAIN listLoads :
          \E kind \in {"datarooms", "documents"} : <<n, listLoads[n].fn, kind>> \in DOMAIN reqLog
    /\ \A n \in DOMAIN contentLoads :
          /\ <<n, "loadContent", "file-url">> \in DOMAIN reqLog
          /\ <<n, "loadContent", "markdown">> \in DOMAIN reqLog

\* document C is open for the second time, after a close, and its second
\* loadContent has issued a file-url request of its own
C10_Witness ==
    /\ app.realmId = "r2"
    /\ userOps.open = 2
    /\ userOps.close = 1
    /\ nav.path = Some("C")
    /\ invoked.loadContent = 2
    /\ \E n \in DOMAIN contentLoads :
          /\ contentLoads[n].docId = "C"
          /\ reqLog[<<n, "loadContent", "file-url">>] = 1

\* C11: when the dataroom-list request or the document-list request of a
\* running load fails, the App ends that load with error set to the
\* corresponding "Failed to fetch ..." message and with isFetching false.
\* The failures looked at are those of requests for a list that is not empty
\* on the backend, which no successful request resembles.
C11_FailedListRequestSetsError ==
    [][\A n \in DOMAIN listLoads :
          /\ (/\ ServerDatarooms(listLoads[n].realm) # <<>>
              /\ DataroomsResponse(n, FALSE)) =>
                /\ app'.error = Some("Failed to fetch datarooms. Check console for details.")
                /\ ~app'.isFetching
          /\ (/\ ServerDocuments(listLoads[n].realm, listLoads[n].dataroom) # <<>>
              /\ DocumentsResponse(n, FALSE)) =>
                /\ app'.error = Some("Failed to fetch documents. Check console for details.")
                /\ ~app'.isFetching]_vars

\* the docId values fetchFileUrl, fetchFileBlob and fetchDocumentMarkdown are
\* called with, and the realm and dataroom ids of the list requests
ServiceDocIds == DOMAIN server.files

ServiceRealms == DOMAIN server.datarooms \cup {"zz"}

ServiceDatarooms == {k[2] : k \in DOMAIN server.documents} \cup {"zz"}

\* C12: every documentService function resolves and never rejects, whatever
\* the outcome of its requests: on failure fetchDatarooms and fetchDocuments
\* resolve to an empty list, fetchFileUrl and fetchFileBlob to null, and
\* fetchDocumentMarkdown to "Loading the markdown content"; so no running
\* loadContent ever holds a rejected promise.
C12_ServiceNeverRejects ==
    /\ \A r \in ServiceRealms, ok \in BOOLEAN :
          /\ fetchDatarooms(r, ok).status = "fulfilled"
          /\ ~ok => fetchDatarooms(r, ok).value = <<>>
          /\ \A d \in ServiceDatarooms :
                /\ fetchDocuments(r, d, ok).status = "fulfilled"
                /\ ~ok => fetchDocuments(r, d, ok).value = <<>>
    /\ \A docId \in ServiceDocIds, original \in BOOLEAN, ok \in BOOLEAN :
          /\ \A outcome \in {"url", "empty", "error"} :
                /\ fetchFileUrl(docId, original, outcome).status = "fulfilled"
                /\ outcome = "error" => fetchFileUrl(docId, original, outcome).value = None
                /\ fetchFileBlob(docId, original, outcome, ok).status = "fulfilled"
                /\ outcome = "error" \/ ~ok =>
                      fetchFileBlob(docId, original, outcome, ok).value = None
          /\ fetchDocumentMarkdown(docId, ok).status = "fulfilled"
          /\ ~ok => fetchDocumentMarkdown(docId, ok).value = "Loading the markdown content"
    /\ \A n \in DOMAIN contentLoads : ~AllRejects(contentLoads[n])

\* a loadContent whose file request and markdown request both failed awaits
\* nothing more: its blob is null and its markdown is the placeholder
C12_Witness ==
    \E n \in DOMAIN contentLoads :
        /\ contentLoads[n].cur = "done"
        /\ contentLoads[n].curBlob = None
        /\ contentLoads[n].md = "done"
        /\ contentLoads[n].redacted = "Loading the markdown content"
        /\ <<n, "loadContent", "download">> \notin DOMAIN reqLog

\* the download request of fetchFileBlob in invocation n
DownloadKey(n, original) ==
    <<n, "loadContent", IF original THEN "download?original=true" ELSE "download">>

\* where fetchFileBlob stands in invocation ld, and the blob it resolved to
BlobStage(ld, original) == IF original THEN ld.orig ELSE ld.cur

BlobOf(ld, original) == IF original THEN ld.origBlob ELSE ld.curBlob

\* C13: fetchFileBlob issues the download request only after the file-URL
\* request has returned a non-empty URL (the request appears in the step in
\* which that answer arrives, and never while the file-URL request is
\* pending); when the file-URL request fails or returns no URL, no download
\* request is issued, the result is null, and onProgress is not called: the
\* progress callback runs only for an invocation whose download was issued.
C13_DownloadOnlyAfterUrl ==
    /\ [](\A n \in DOMAIN contentLoads, original \in BOOLEAN :
            BlobStage(contentLoads[n], original) \in {"url", "skip"}
                => DownloadKey(n, original) \notin DOMAIN reqLog)
    /\ [][\A n \in DOMAIN contentLoads, original \in BOOLEAN :
            /\ (DownloadKey(n, original) \notin DOMAIN reqLog
                    /\ DownloadKey(n, original) \in DOMAIN reqLog')
                  => FileUrlResponse(n, original, "url")
            /\ \A outcome \in {"empty", "error"} :
                  FileUrlResponse(n, original, outcome) =>
                    /\ DownloadKey(n, original) \notin DOMAIN reqLog'
                    /\ BlobStage(contentLoads'[n], original) = "done"
                    /\ BlobOf(contentLoads'[n], original) = None
                    /\ view'.downloadProgress = view.downloadProgress
            /\ \A percent \in ProgressPercents :
                  DownloadProgress(n, percent) => DownloadKey(n, FALSE) \in DOMAIN reqLog]_vars

\* in developer mode the file-URL request of the current file has failed and
\* that of the original has returned a URL: only the original is downloaded,
\* the current blob is null and no progress was reported
C13_Witness ==
    \E n \in DOMAIN contentLoads :
        /\ contentLoads[n].cur = "done"
        /\ contentLoads[n].curBlob = None
        /\ DownloadKey(n, FALSE) \notin DOMAIN reqLog
        /\ DownloadKey(n, TRUE) \in DOMAIN reqLog
        /\ contentLoads[n].instance = view.instance
        /\ view.downloadProgress = 0

\* C14: when a loadContent invocation of the mounted RedactionView completes,
\* documentContent is non-null exactly if the file blob resolved to a Blob:
\* with a null blob the page is in its "Failed to load content" state whatever
\* the markdown request returned, and with a Blob the document is shown, with
\* whatever fetchDocumentMarkdown and the original's fetchFileBlob resolved to.
C14_ContentIffBlob ==
    [][\A n \in DOMAIN contentLoads, readOk \in BOOLEAN :
          (ContentResumes(n, readOk) /\ contentLoads[n].instance = view.instance) =>
              /\ view'.documentContent # None <=> contentLoads[n].curBlob # None
              /\ contentLoads[n].curBlob = None => Screen' = "failed"
              /\ contentLoads[n].curBlob # None =>
                    /\ Screen' = "viewer"
                    /\ view'.documentContent[1].redactedContent = contentLoads[n].redacted
                    /\ view'.documentContent[1].originalBlob = contentLoads[n].origBlob]_vars

\* a document is shown although its markdown request and, in developer mode,
\* the request for its original both failed
C14_Witness ==
    /\ Screen = "viewer"
    /\ view.closure.isDevMode
    /\ view.documentContent[1].originalBlob = None
    /\ view.documentContent[1].redactedContent = "Loading the markdown content"

\* C15: every loadContent invocation whose requests all settle terminates,
\* and its last step leaves loading false in the component that runs it,
\* whether it shows the document, got a null blob, failed to read the blob as
\* text, or threw.
C15_LoadEndsNotLoading ==
    /\ [][\A n \in DOMAIN contentLoads, readOk \in BOOLEAN :
            ContentResumes(n, readOk) =>
                /\ n \notin DOMAIN contentLoads'
                /\ contentLoads[n].instance = view.instance => ~view'.loading]_vars
    /\ (contentLoads # <<>>) ~> (contentLoads = <<>>)

\* a load has ended with a null blob: the page is not loading and says that
\* the content failed to load
C15_Witness ==
    /\ Screen = "failed"
    /\ contentLoads = <<>>
    /\ invoked.loadContent > 0

\* a load of a text file has ended after blob.text() failed: the page is not
\* loading and shows the document without its text
C15_WitnessReadFailed ==
    /\ Screen = "viewer"
    /\ contentLoads = <<>>
    /\ view.documentContent[1].originalText = None
    /\ TextLike(OrElse(inferExtFromType(view.documentContent[1].blobType,
                                         view.documentContent[1].filename),
                        Some(toLowerCase(SplitPop(view.documentContent[1].filename)))))

\* the loadContent invocations of the mounted RedactionView that load the
\* document of the current route
LoadsOfRoute ==
    {n \in DOMAIN contentLoads :
        /\ nav.path # None
        /\ contentLoads[n].instance = view.instance
        /\ contentLoads[n].docId = nav.path[1]}

\* C16: whenever loading is false and documentContent is non-null, the
\* content shown (blob, redacted markdown) was fetched for the document id of
\* the current route, and loading is never false while a load of the
\* current route's document is still in flight.
C16_ShownContentIsOfRoute ==
    /\ Screen = "viewer" =>
          /\ view.documentContent[1].blob.doc = nav.path[1]
          /\ view.documentContent[1].redactedContent
                \in {server.files[nav.path[1]].markdown, "Loading the markdown content"}
    /\ LoadsOfRoute # {} => view.loading

\* the category loadContent computed for the content dc it stored:
\* inferExtFromType(blobType, filename) || extFromName
LoadExt(dc) ==
    OrElse(inferExtFromType(dc.blobType, dc.filename),
           Some(toLowerCase(SplitPop(dc.filename))))

\* detectedExt of the render that follows the completion of invocation n with
\* a loaded blob: the name is that of the selected document, else the
\* filename loadContent stored, and the type is the blob's
RenderExtAfter(n) ==
    LET ld == contentLoads[n]
        name == IF selectedDoc # None /\ selectedDoc[1].filename # ""
                THEN selectedDoc[1].filename
                ELSE LoadedContent(n, ld, TRUE).filename
    IN  detectedExt(name, ld.curBlob[1].type)

\* C17: the category loadContent uses to decide whether to read the blob as
\* text agrees with the category of the render (detectedExt) on every shown
\* document, so that whenever detectedExt is md, markdown, txt, csv or tsv and
\* blob.text() succeeds, originalText has been loaded into documentContent.
C17_TextOfTextLikeIsLoaded ==
    /\ [](Screen = "viewer" /\ TextLike(renderedExt)
            => TextLike(LoadExt(view.documentContent[1])))
    /\ [][\A n \in DOMAIN contentLoads :
            (/\ contentLoads[n].instance = view.instance
             /\ contentLoads[n].curBlob # None
             /\ TextLike(RenderExtAfter(n))
             /\ ContentResumes(n, TRUE)) => view'.documentContent[1].originalText # None]_vars

\* C18: isFetching is true in every state in which a dataroom-list or
\* document-list request started by the App is still in flight.
C18_FetchingWhileInFlight == listLoads # <<>> => app.isFetching

\* C19: whenever no list request is in flight, documents is empty or is the
\* list the most recent document-list request returned, and that request was
\* for the current realmId and selectedDataroomId.
C19_DocumentsAreOfSelection ==
    listLoads = <<>> =>
        \/ app.documents = <<>>
        \/ returned = Some([realm |-> app.realmId, dataroom |-> app.selectedDataroomId,
                            data |-> app.documents])

\* C20: in the App whose dataroom effect depends on realmId, loadDatarooms has
\* been called once by the mount effect and once for every search of a realm
\* other than the current one, and no more: the setRealmId of a load starts
\* no second load.
C20_OneLoadPerSearch == invoked.loadDatarooms = 1 + userOps.loading

\* the state of the page, without the bookkeeping of what the user did
PageState == <<app, nav, listLoads, view, contentLoads, liveUrls, nextInv, reqLog, invoked>>

\* C21: handleSearch called with an id that, trimmed, equals the current
\* realmId changes no state, issues no request and does not navigate; called
\* with another id it navigates to '/' and starts loadDatarooms for the
\* trimmed id: one new invocation with its dataroom-list request when the
\* trimmed id is not empty, the cleared state and no request when it is.
C21_SearchOfCurrentRealmIsNoOp ==
    [][\A v \in SearchInputs :
          Search(v) =>
            /\ trim(v) = app.realmId => PageState' = PageState
            /\ trim(v) # app.realmId =>
                  /\ nav'.path = None
                  /\ nav'.history = Append(nav.history, None)
                  /\ app'.datarooms = <<>> /\ app'.documents = <<>>
                  /\ app'.selectedDataroomId = "" /\ app'.error = None
                  /\ IF trim(v) = ""
                     THEN /\ listLoads' = listLoads /\ reqLog' = reqLog
                          /\ app'.realmId = "" /\ ~app'.isFetching
                     ELSE /\ app'.isFetching
                          /\ DOMAIN listLoads' = DOMAIN listLoads \cup {nextInv}
                          /\ listLoads'[nextInv] =
                                [fn |-> "loadDatarooms", realm |-> trim(v), dataroom |-> ""]
                          /\ reqLog'[<<nextInv, "loadDatarooms", "datarooms">>] = 1]_vars

\* while a document of realm r1 is open, the realm is searched again, typed
\* with blanks around it: the document stays open
C21_Witness ==
    /\ userOps.last = "searchSame"
    /\ userOps.realm = "r1"
    /\ nav.path # None
    /\ app.documents # <<>>

\* empty and whitespace-only realm ids
BlankIds == {"", " ", "  "}

\* the App state loadDatarooms leaves for an empty id
ClearedApp(a) ==
    /\ a.realmId = "" /\ a.datarooms = <<>> /\ a.documents = <<>>
    /\ a.selectedDataroomId = "" /\ a.error = None /\ ~a.isFetching

\* C22: loadDatarooms called with an empty or whitespace-only realm id
\* issues no request and leaves realmId '', datarooms empty, documents empty,
\* selectedDataroomId '', error null and isFetching false: so does the
\* function in every state of the page, and so ends every search of a blank
\* text made while a realm is shown.
C22_BlankRealmClearsWithoutRequest ==
    [][/\ \A id \in BlankIds :
             LET w == loadDatarooms(World, id)
             IN  /\ ClearedApp(w.app)
                 /\ w.reqLog = reqLog /\ w.listLoads = listLoads
                 /\ w.invoked = invoked /\ w.nextInv = nextInv
       /\ \A v \in SearchInputs :
             Search(v) /\ trim(v) = "" /\ app.realmId # "" =>
                /\ ClearedApp(app')
                /\ reqLog' = reqLog /\ listLoads' = listLoads
                /\ invoked' = invoked]_vars

\* a realm with its documents was loaded, then a blank text was searched
C22_Witness ==
    /\ userOps.last = "search"
    /\ userOps.realm = ""
    /\ userOps.loading >= 1
    /\ invoked.loadDocuments >= 1
    /\ ClearedApp(app)
    /\ reqLog = <<>>

\* the ids of the datarooms in the list
DataroomIds(rooms) == {rooms[i].id : i \in 1..Len(rooms)}

\* C23: in every reachable state selectedDataroomId is the empty string or
\* the id of a dataroom of the current datarooms list, and loadDocuments is
\* only invoked with a non-empty realm id and a non-empty dataroom id: the
\* documents effect calls loadDocuments(realmId, selectedDataroomId) for the
\* committed state whenever selectedDataroomId is not empty, so no committed
\* state has a selection without a realm, and every running loadDocuments
\* has both ids.
C23_SelectionIsListedAndLoadsHaveIds ==
    /\ app.selectedDataroomId \in {""} \cup DataroomIds(app.datarooms)
    /\ app.selectedDataroomId # "" => app.realmId # ""
    /\ \A n \in DOMAIN listLoads :
          listLoads[n].fn = "loadDocuments" =>
             listLoads[n].realm # "" /\ listLoads[n].dataroom # ""

\* the user chose a dataroom other than the first, and its documents are
\* being loaded
C23_Witness ==
    /\ userOps.last = "dataroomChange"
    /\ app.selectedDataroomId # ""
    /\ app.selectedDataroomId # app.datarooms[1].id
    /\ \E n \in DOMAIN listLoads :
          listLoads[n] = [fn |-> "loadDocuments", realm |-> app.realmId,
                          dataroom |-> app.selectedDataroomId]

\* the position of the parent of the node at a position below the top level
ParentOf(p) == SubSeq(p, 1, Len(p) - 1)

\* what every render of the tree shows: a row links to /document/<id>
\* exactly when its node is not a folder, a node renders its children only
\* when it is a folder that is open, and so every mounted node below the top
\* level has an open folder as its parent
TreeRenderIsSound ==
    \A p \in DOMAIN tOpen :
       LET document == NodeAt(tDocs, p)
           row == DocumentNodeRow(document, tOpen[p], tPath)
       IN  /\ row.link # None <=> ~document.isFolder
           /\ row.link # None => row.link[1] = "/document/" \o document.id
           /\ row.children => document.isFolder /\ tOpen[p]
           /\ tOpen[p] => document.isFolder
           /\ Len(p) > 1 =>
                 /\ ParentOf(p) \in DOMAIN tOpen
                 /\ NodeAt(tDocs, ParentOf(p)).isFolder
                 /\ tOpen[ParentOf(p)]

\* what every click does: a click on a folder row negates the folder's
\* isOpen, and a second click in a row gives back the value before the
\* first; a click on a file row or on a link leaves every isOpen as it was;
\* an instance a click mounts starts collapsed
TreeClicksToggle ==
    \A p \in DOMAIN tOpen :
       /\ NodeClick(p) /\ NodeAt(tDocs, p).isFolder =>
             /\ tOpen'[p] = ~tOpen[p]
             /\ tLast.op = "row" /\ tLast.at = p => tOpen'[p] = tLast.was
             /\ \A q \in DOMAIN tOpen' \ DOMAIN tOpen : ~tOpen'[q]
       /\ NodeClick(p) /\ ~NodeAt(tDocs, p).isFolder => tOpen' = tOpen
       /\ LinkClick(p) => tOpen' = tOpen

\* C24: a DocumentNode starts collapsed; clicking a folder row toggles its
\* open state, so that two clicks restore it; clicking a file row or its
\* link never changes any open state; a node's children are rendered only
\* while the node is a folder that is open; only non-folder nodes link to
\* /document/<id>.
C24_DocumentNodeOpenState ==
    /\ \A p \in DOMAIN tOpen : ~tOpen[p]
    /\ []TreeRenderIsSound
    /\ [][TreeClicksToggle]_vars

\* with a document selected through its link, a folder inside an open
\* folder was clicked twice in a row and is collapsed again
C24_Witness ==
    /\ tLast.op = "row" /\ tLast.again
    /\ Len(tLast.at) > 1
    /\ NodeAt(tDocs, tLast.at).isFolder
    /\ ~tOpen[tLast.at]
    /\ tPath # "/"

====
